---- MODULE Spec2Model ----
(***************************************************************************)
(* CanLII scraper: the BrowserManager failure window and rotation gate     *)
(* (scraper.py), the IPRotator limit check (rotate_ip.py) and the batch    *)
(* dispatcher of scrape_law_cases (scrape_canlii.py).                      *)
(***************************************************************************)
EXTENDS Integers, Sequences, FiniteSets, TLC

(* ------------------------------------------------------------------ *)
(* Bounds of the model                                                 *)
(* ------------------------------------------------------------------ *)
\* number of client threads calling the fetchers in SpecBM
NumClients == 2
\* cap on the number of outcomes recorded in SpecBM
MaxHist == 5
\* cap on the calls of rotate_elastic_ip
MaxRotateCalls == 1
\* cap on the "load more" rounds followed on one listing page
MaxShowMore == 2
\* cap on the length of the lists handed to write_failed_cases and
\* write_missing_cases in SpecLog
MaxCases == 2
\* cap on the lines a log file holds from earlier runs in SpecLog
MaxPriorLines == 1
\* cap on the calls of rotate_elastic_ip in SpecRotator
MaxRotatorCalls == 3
\* cap on the addresses the account holds at one time
MaxAddresses == 4

(* ------------------------------------------------------------------ *)
(* Program constants                                                   *)
(* ------------------------------------------------------------------ *)
\* self.fail_rate = 5 in BrowserManager.__init__
HardFailRate == 5
\* rotate_elastic_ip(self, eni_id): one required positional parameter
RotateParams == 1
\* self.ip_rotator.rotate_elastic_ip() in _update_request_history: no argument
UpdateRotateArgs == 0
\* self.ip_rotator.rotate_elastic_ip() in selenium_get: no argument
SeleniumRotateArgs == 0
\* batch_size = 5 in scrape_law_cases
batch_size == 5

\* max_retries=3, window_size=10, fail_rate=1 in scrape_law_cases
CrawlMaxRetries == 3
CrawlWindowSize == 10
CrawlFailRate == 1
\* rotation_limit=3 in the IPRotateArgs of scrape_law_cases
CrawlRotationLimit == 3
\* for year in range(begin_year, 2026) with begin_year 2024: two listing pages
NumPages == 2

\* thread 0 is the thread running scrape_law_cases; 1..batch_size are the
\* threads of a batch (SpecCrawl) or the client threads (SpecBM)
Threads == 0..batch_size
Clients == 1..NumClients
\* the value of lock when no thread holds it
NoThread == -1

\* constructor inputs of SpecBM
WindowSizes == {4}
FailRateArgs == {1, 5}
RetryChoices == {2}
RotationLimitArgs == {1}

VARIABLES
    \* BrowserManager fields
    request_history, total_requests, total_successes, total_failures,
    window_size, fail_rate, fail_rate_arg, max_retries,
    lock, is_rotating_ip, ip_rotator,
    \* IPRotator fields (0 stands for rotation_limit = None)
    rotation_count, rotation_limit,
    \* observation of the gate: the recent_failures local of the last
    \* _update_request_history, and the number of rotate_elastic_ip calls
    recent_failures, rotate_calls,
    \* per thread: position in the fetcher, loop counter, argument of
    \* _update_request_history, fetcher kind, result
    pc, retries, flag, kind, ret, exc,
    \* per thread: the error_message local of the fetcher, by the kind of the
    \* last failed attempt; the rotation_limit of the rotation configuration
    error_message, rotation_limit_arg,
    \* scrape_law_cases: position of the main thread, index of the listing
    \* page, successful "load more" rounds of the page, its local lists,
    \* the per-batch result dict, whether the except block was entered
    m_pc, page, clicks, remaining_urls, batch_urls, result_container,
    should_rotate, failed_cases, missing_cases, aborted,
    \* storage: the text of each case file present, by case id, and the lines
    \* of failed_cases.txt and of missing_cases.txt
    files, failed_log, missing_log,
    \* the site: whether it is rate limiting the crawler's current address,
    \* and the case links its listing pages show
    limited, case_links,
    \* observations for the properties: the URLs of the current batch whose
    \* file was present when the batch was dispatched, the length of the
    \* window at that moment, whether a rotation call has raised
    existing_at_dispatch, window_at_dispatch, rotation_failed,
    \* rotate_elastic_ip(eni_id): position in the call and its locals (0 for
    \* None); the cloud: the allocation ids the account holds and the one
    \* associated with the interface (0 for none)
    r_pc, old_allocation_id, old_association_id, new_allocation_id,
    allocated, eni_address

bmVars == <<request_history, total_requests, total_successes, total_failures,
            window_size, fail_rate, fail_rate_arg, max_retries,
            lock, is_rotating_ip, ip_rotator, rotation_count, rotation_limit,
            recent_failures, rotate_calls, pc, retries, flag, kind, ret, exc,
            rotation_failed, error_message, rotation_limit_arg>>

rotVars == <<r_pc, old_allocation_id, old_association_id, new_allocation_id,
             allocated, eni_address>>

\* no call of rotate_elastic_ip(eni_id) is bound: the interface holds the
\* address it was given
RotatorIdle ==
    /\ r_pc = "idle"
    /\ old_allocation_id = 0
    /\ old_association_id = 0
    /\ new_allocation_id = 0
    /\ allocated = {1}
    /\ eni_address = 1

(* ------------------------------------------------------------------ *)
(* Pure helpers                                                        *)
(* ------------------------------------------------------------------ *)
\* Python's seq[start:] with a possibly negative start
PySliceFrom(s, start) ==
    LET n == Len(s)
        b == IF start < 0
             THEN (IF n + start < 0 THEN 0 ELSE n + start)
             ELSE (IF start > n THEN n ELSE start)
    IN  SubSeq(s, b + 1, n)

CountFalse(s) == Cardinality({i \in DOMAIN s : ~s[i]})

\* the last min(Len(s), n) entries of s
LastN(s, n) == IF Len(s) <= n THEN s ELSE SubSeq(s, Len(s) - n + 1, Len(s))

\* window_start = len(history) - 1 - window_size
\* recent_failures = sum(1 for fail in history[window_start:] if not success)
RecentFailures(hist, success, ws) ==
    LET slice == PySliceFrom(hist, Len(hist) - 1 - ws)
    IN  Cardinality({i \in DOMAIN slice : ~success})

\* a faulty recording: the outcome is appended twice
HistoryAppendTwice(hist, success, ws) == Append(Append(hist, success), success)

\* self.request_history.append(success)
HistoryAppend(hist, success, ws) == Append(hist, success)

\* self.fail_rate = 5
InitFailRate(arg) == HardFailRate

\* IPRotator(instance_id=..., eni_id=..., region=..., log_file=...): the
\* rotation_limit of the configuration is not passed on, the rotator keeps
\* its default None (written 0)
InitRotationLimit(arg) == 0

\* a faulty limit check: one rotation too many is let through
LimitCheckLate(count, limit) == limit # 0 /\ count > limit

\* if self.rotation_limit and self.rotation_count >= self.rotation_limit
LimitCheck(count, limit) == limit # 0 /\ count >= limit

\* IPRotator.rotate_elastic_ip as seen by its caller: the call binds only
\* when eni_id is passed; then the limit check, then the cloud calls, which
\* succeed or raise ClientError
RotateOutcomes(nargs, count, limit) ==
    IF nargs # RotateParams THEN {"TypeError"}
    ELSE IF LimitCheck(count, limit) THEN {"LimitReached"}
    ELSE {"ok", "ClientError"}

\* a faulty exit: the lock stays with the thread
LockKept(t) == t

\* with self.lock: the lock is released on every exit of the block
LockOnExit(t) == NoThread

InCall(t) == pc[t] \notin {"idle", "returned", "raised"}

(* ------------------------------------------------------------------ *)
(* BrowserManager.__init__                                             *)
(* ------------------------------------------------------------------ *)
BrowserManagerInit(ws, fr, mr, rot, lim) ==
    /\ request_history = <<>>
    /\ total_requests = 0
    /\ total_successes = 0
    /\ total_failures = 0
    /\ window_size = ws
    /\ fail_rate_arg = fr
    /\ fail_rate = InitFailRate(fr)
    /\ max_retries = mr
    /\ lock = NoThread
    /\ is_rotating_ip = FALSE
    /\ ip_rotator = rot
    /\ rotation_count = 0
    /\ rotation_limit_arg = lim
    /\ rotation_limit = InitRotationLimit(lim)
    /\ recent_failures = 0
    /\ rotate_calls = 0
    /\ pc = [t \in Threads |-> "idle"]
    /\ retries = [t \in Threads |-> 0]
    /\ flag = [t \in Threads |-> TRUE]
    /\ kind = [t \in Threads |-> "none"]
    /\ ret = [t \in Threads |-> "none"]
    /\ exc = [t \in Threads |-> "none"]
    /\ error_message = [t \in Threads |-> "none"]
    /\ rotation_failed = FALSE

bmConfig == <<window_size, fail_rate, fail_rate_arg, max_retries, ip_rotator,
              rotation_limit, rotation_limit_arg>>
bmTotals == <<total_requests, total_successes, total_failures>>

(* ------------------------------------------------------------------ *)
(* BrowserManager.requests_get                                         *)
(* ------------------------------------------------------------------ *)
\* entry of requests_get: retries = 0
EnterRequestsGet(t) ==
    /\ pc' = [pc EXCEPT ![t] = "req_loop"]
    /\ retries' = [retries EXCEPT ![t] = 0]
    /\ kind' = [kind EXCEPT ![t] = "requests"]
    /\ ret' = [ret EXCEPT ![t] = "none"]
    /\ exc' = [exc EXCEPT ![t] = "none"]
    /\ error_message' = [error_message EXCEPT ![t] = "none"]
    /\ flag' = flag

\* the except branch of requests_get after r failures: retries += 1, then
\* the loop test; after max_retries failures the call goes on to
\* _update_request_history(False)
RequestsRetryOf(t, r) ==
    /\ retries' = [retries EXCEPT ![t] = r + 1]
    /\ IF r + 1 < max_retries
       THEN /\ pc' = [pc EXCEPT ![t] = "req_loop"]
            /\ flag' = flag
            /\ ret' = ret
       ELSE /\ pc' = [pc EXCEPT ![t] = "upd"]
            /\ flag' = [flag EXCEPT ![t] = FALSE]
            /\ ret' = [ret EXCEPT ![t] = "fail"]

RequestsRetry(t) == RequestsRetryOf(t, retries[t])

\* one pass of the while loop of requests_get: the response is usable
\* (with or without extractable text), or the attempt raises: a transport or
\* status error ("error"), or a 429 status or an error page with a
\* rate-limit phrase ("rate_limit"); both are caught by "except Exception"
RequestsAttemptOf(t, outs) ==
    /\ pc[t] = "req_loop"
    /\ \E out \in outs :
         IF out \in {"error", "rate_limit"}
         THEN /\ RequestsRetry(t)
              /\ error_message' = [error_message EXCEPT ![t] = out]
         ELSE /\ pc' = [pc EXCEPT ![t] = "upd"]
              /\ flag' = [flag EXCEPT ![t] = TRUE]
              /\ ret' = [ret EXCEPT ![t] = out]
              /\ retries' = retries
              /\ error_message' = error_message
    /\ UNCHANGED <<request_history, bmTotals, bmConfig, lock, is_rotating_ip,
                   rotation_count, recent_failures, rotate_calls, kind, exc,
                   rotation_failed>>

(* ------------------------------------------------------------------ *)
(* BrowserManager.selenium_get                                         *)
(* ------------------------------------------------------------------ *)
EnterSeleniumGet(t) ==
    /\ pc' = [pc EXCEPT ![t] = "sel_loop"]
    /\ retries' = [retries EXCEPT ![t] = 0]
    /\ kind' = [kind EXCEPT ![t] = "selenium"]
    /\ ret' = [ret EXCEPT ![t] = "none"]
    /\ exc' = [exc EXCEPT ![t] = "none"]
    /\ error_message' = [error_message EXCEPT ![t] = "none"]
    /\ flag' = flag

\* the loop test of selenium_get after a failed attempt
SeleniumLoopTest(t) ==
    IF retries[t] < max_retries
    THEN /\ pc' = [pc EXCEPT ![t] = "sel_loop"]
         /\ flag' = flag
         /\ ret' = ret
    ELSE /\ pc' = [pc EXCEPT ![t] = "upd"]
         /\ flag' = [flag EXCEPT ![t] = FALSE]
         /\ ret' = [ret EXCEPT ![t] = "fail"]

\* one pass of the while loop of selenium_get: the page and the awaited
\* element load, or the driver raises and retries is incremented
SeleniumAttemptOf(t, outs) ==
    /\ pc[t] = "sel_loop"
    /\ \E out \in outs :
         IF out = "ok"
         THEN /\ pc' = [pc EXCEPT ![t] = "upd"]
              /\ flag' = [flag EXCEPT ![t] = TRUE]
              /\ ret' = [ret EXCEPT ![t] = "ok"]
              /\ retries' = retries
              /\ error_message' = error_message
         ELSE /\ pc' = [pc EXCEPT ![t] = "sel_probe"]
              /\ retries' = [retries EXCEPT ![t] = retries[t] + 1]
              /\ error_message' = [error_message EXCEPT ![t] = "error"]
              /\ flag' = flag
              /\ ret' = ret
    /\ UNCHANGED <<request_history, bmTotals, bmConfig, lock, is_rotating_ip,
                   rotation_count, recent_failures, rotate_calls, kind, exc,
                   rotation_failed>>

\* the exceptions of requests.get(url) when the site cannot be reached
ProbeErrors == {"ConnectionError", "Timeout"}

\* res = requests.get(url); if res.status_code == 429: rotate. The call is
\* made inside the except branch, outside any try: when it raises, the
\* exception leaves selenium_get and nothing is recorded
SeleniumProbeOf(t, statuses) ==
    /\ pc[t] = "sel_probe"
    /\ \/ /\ \E status \in statuses :
               IF status = 429
               THEN /\ pc' = [pc EXCEPT ![t] = "sel_rotate"]
                    /\ flag' = flag
                    /\ ret' = ret
               ELSE SeleniumLoopTest(t)
          /\ exc' = exc
       \/ /\ \E e \in ProbeErrors : exc' = [exc EXCEPT ![t] = e]
          /\ pc' = [pc EXCEPT ![t] = "raised"]
          /\ flag' = flag
          /\ ret' = ret
    /\ UNCHANGED <<request_history, bmTotals, bmConfig, lock, is_rotating_ip,
                   rotation_count, recent_failures, rotate_calls, kind,
                   retries, rotation_failed, error_message>>

\* self.ip_rotator.rotate_elastic_ip() in the except branch of selenium_get,
\* outside the lock; an exception of the call leaves selenium_get
SeleniumRotate(t) ==
    /\ pc[t] = "sel_rotate"
    /\ rotate_calls' = rotate_calls + 1
    /\ IF ~ip_rotator
       THEN /\ pc' = [pc EXCEPT ![t] = "raised"]
            /\ exc' = [exc EXCEPT ![t] = "AttributeError"]
            /\ UNCHANGED <<rotation_count, flag, ret, rotation_failed>>
       ELSE \E out \in RotateOutcomes(SeleniumRotateArgs, rotation_count,
                                      rotation_limit) :
              IF out = "ok"
              THEN /\ rotation_count' = rotation_count + 1
                   /\ exc' = exc
                   /\ SeleniumLoopTest(t)
                   /\ UNCHANGED rotation_failed
              ELSE /\ pc' = [pc EXCEPT ![t] = "raised"]
                   /\ exc' = [exc EXCEPT ![t] = out]
                   /\ rotation_failed' = TRUE
                   /\ UNCHANGED <<rotation_count, flag, ret>>
    /\ UNCHANGED <<request_history, bmTotals, bmConfig, lock, is_rotating_ip,
                   recent_failures, kind, retries, error_message>>

(* ------------------------------------------------------------------ *)
(* BrowserManager._update_request_history                              *)
(* ------------------------------------------------------------------ *)
\* an exception of _update_request_history(True) inside the try block of
\* requests_get is caught by "except Exception"; every other one leaves
\* the fetcher. success, retv, r and msg are the caller's flag, result,
\* retries and error_message
RaiseFromUpdateOf(t, e, success, retv, r, msg) ==
    IF kind[t] = "requests" /\ success
    THEN /\ RequestsRetryOf(t, r)
         /\ exc' = exc
         /\ error_message' = [error_message EXCEPT ![t] = "error"]
    ELSE /\ error_message' = [error_message EXCEPT ![t] = msg]
         /\ pc' = [pc EXCEPT ![t] = "raised"]
         /\ exc' = [exc EXCEPT ![t] = e]
         /\ flag' = [flag EXCEPT ![t] = success]
         /\ ret' = [ret EXCEPT ![t] = retv]
         /\ retries' = [retries EXCEPT ![t] = r]

\* the body of "with self.lock" up to the rotation call
UpdateBody(t, success, retv, r, msg) ==
    /\ lock = NoThread
    /\ LET h == HistoryAppend(request_history, success, window_size)
           rf == RecentFailures(h, success, window_size)
       IN  /\ request_history' = h
           /\ total_requests' = total_requests + 1
           /\ total_successes' = total_successes + (IF success THEN 1 ELSE 0)
           /\ total_failures' = total_failures + (IF success THEN 0 ELSE 1)
           /\ recent_failures' = rf
           /\ IF rf >= fail_rate
              THEN IF ip_rotator
                   THEN /\ is_rotating_ip' = TRUE
                        /\ lock' = t
                        /\ pc' = [pc EXCEPT ![t] = "rot_call"]
                        /\ flag' = [flag EXCEPT ![t] = success]
                        /\ ret' = [ret EXCEPT ![t] = retv]
                        /\ retries' = [retries EXCEPT ![t] = r]
                        /\ exc' = exc
                        /\ error_message' = [error_message EXCEPT ![t] = msg]
                   ELSE /\ RaiseFromUpdateOf(t, "TooManyFailures", success,
                                             retv, r, msg)
                        /\ lock' = LockOnExit(t)
                        /\ UNCHANGED is_rotating_ip
              ELSE /\ pc' = [pc EXCEPT ![t] = "returned"]
                   /\ flag' = [flag EXCEPT ![t] = success]
                   /\ ret' = [ret EXCEPT ![t] = retv]
                   /\ retries' = [retries EXCEPT ![t] = r]
                   /\ exc' = exc
                   /\ error_message' = [error_message EXCEPT ![t] = msg]
                   /\ lock' = LockOnExit(t)
                   /\ UNCHANGED is_rotating_ip
    /\ UNCHANGED <<bmConfig, rotation_count, rotate_calls, kind,
                   rotation_failed>>

\* _update_request_history(success), called at the end of a fetcher
UpdateRequestHistory(t) ==
    /\ pc[t] = "upd"
    /\ UpdateBody(t, flag[t], ret[t], retries[t], error_message[t])

\* self.ip_rotator.rotate_elastic_ip() under the lock, then the reset of the
\* totals and the unconditional raise
RotateInUpdate(t) ==
    /\ pc[t] = "rot_call"
    /\ rotate_calls' = rotate_calls + 1
    /\ lock' = LockOnExit(t)
    /\ \E out \in RotateOutcomes(UpdateRotateArgs, rotation_count,
                                 rotation_limit) :
         IF out = "ok"
         THEN /\ rotation_count' = rotation_count + 1
              /\ is_rotating_ip' = FALSE
              /\ total_failures' = 0
              /\ total_successes' = 0
              /\ total_requests' = 0
              /\ RaiseFromUpdateOf(t, "TooManyFailures", flag[t], ret[t],
                                   retries[t], error_message[t])
              /\ UNCHANGED rotation_failed
         ELSE /\ RaiseFromUpdateOf(t, out, flag[t], ret[t], retries[t],
                                   error_message[t])
              /\ rotation_failed' = TRUE
              /\ UNCHANGED <<rotation_count, is_rotating_ip, bmTotals>>
    /\ UNCHANGED <<request_history, bmConfig, recent_failures, kind>>

(* ------------------------------------------------------------------ *)
(* scrape_canlii.py: storage helpers                                   *)
(* ------------------------------------------------------------------ *)
crawlVars == <<m_pc, page, clicks, remaining_urls, batch_urls,
               result_container, should_rotate, failed_cases, missing_cases,
               aborted, files, failed_log, missing_log, limited,
               existing_at_dispatch, window_at_dispatch, case_links>>

\* a case URL is its path and the stem of its last component;
\* case_id = case_url.split("/")[-1].split(".")[0]
CaseId(url) == url[2]

\* the candidate links found on each listing page
Listing == << << <<"en", 1>>, <<"fr", 1>> >>,
              << <<"en", 2>>, <<"en", 3>>, <<"en", 4>> >> >>
\* the documents without extractable text
EmptyDocs == {<<"en", 2>>}

\* content = "\n".join(texts): the paragraphs drawn from the document of
\* url, none for a document without any; the text of a document is named
\* by its URL
ContentOf(url) == IF url \in EmptyDocs THEN <<>> ELSE <<url>>

DocKind(url) == IF ContentOf(url) = <<>> THEN "ok_empty" ELSE "ok"
SeqToSet(s) == {s[i] : i \in DOMAIN s}

\* a listing whose second page holds more links than one batch takes
WideListing == << << <<"en", 1>>, <<"fr", 1>> >>,
                  << <<"en", 2>>, <<"en", 3>>, <<"en", 4>>, <<"en", 5>>,
                     <<"en", 6>>, <<"en", 7>> >> >>

Urls == UNION {SeqToSet(case_links[p]) : p \in 1..NumPages}

RECURSIVE Orders(_)
\* the orders in which a Python set may be iterated
Orders(S) ==
    IF S = {} THEN {<<>>}
    ELSE UNION {{<<x>> \o o : o \in Orders(S \ {x})} : x \in S}

\* a faulty write: the cases are appended whatever the file holds
WriteCasesNoDedup(cases, file) ==
    {file \o o : o \in Orders(SeqToSet(cases))}

\* write_failed_cases / write_missing_cases: the lines of the file after the
\* call, for each iteration order of the set of new cases
WriteCases(cases, file) ==
    LET new_cases == SeqToSet(cases) \ SeqToSet(file)
    IN  {file \o o : o \in Orders(new_cases)}

RECURSIVE FilterNonExisting(_, _)
\* filter_non_existing_cases
FilterNonExisting(case_urls, present) ==
    IF case_urls = <<>> THEN <<>>
    ELSE IF CaseId(Head(case_urls)) \notin present
         THEN <<Head(case_urls)>> \o FilterNonExisting(Tail(case_urls), present)
         ELSE FilterNonExisting(Tail(case_urls), present)

\* remaining_urls[:batch_size] and remaining_urls[batch_size:]
TakeBatch(urls) == SubSeq(urls, 1, IF Len(urls) < batch_size THEN Len(urls)
                                   ELSE batch_size)
\* remaining_urls[batch_size:]
DropBatch(urls) == SubSeq(urls, batch_size + 1, Len(urls))

Workers == 1..batch_size
ActiveWorkers == 1..Len(batch_urls)
Finished(t) == pc[t] \in {"w_done", "raised"}

\* a faulty barrier: one finished thread is enough
JoinedAny(ws) == \E t \in ws : Finished(t)

\* for thread in threads: thread.join()
Joined(ws) == \A t \in ws : Finished(t)

(* ------------------------------------------------------------------ *)
(* process_case, run by the thread of each batch item                  *)
(* ------------------------------------------------------------------ *)
UrlOf(t) == batch_urls[t]

\* result_container is a dict: its items are kept in the order in which the
\* keys were stored. The classification stored for url, "none" without one
ResultOf(url) ==
    IF \E i \in DOMAIN result_container : result_container[i][1] = url
    THEN result_container[CHOOSE i \in DOMAIN result_container :
                              result_container[i][1] = url][2]
    ELSE "none"

\* results[case_url] = r
SetResult(url, r) ==
    IF \E i \in DOMAIN result_container : result_container[i][1] = url
    THEN [i \in DOMAIN result_container |->
             IF result_container[i][1] = url THEN <<url, r>>
             ELSE result_container[i]]
    ELSE Append(result_container, <<url, r>>)

\* what the site answers to one attempt of requests_get: 429 to an address
\* it is limiting; otherwise the document, or the attempt fails on the way
\* (timeout, connection error, error status)
SiteResponses(url) ==
    IF limited THEN {"rate_limit"} ELSE {DocKind(url), "error"}

\* browser.requests_get(case_url) in the thread of item t: one pass of the
\* retry loop, or, after the loop and the delay, _update_request_history up
\* to the rotation call
WorkerRequestsGet(t) ==
    /\ t \in ActiveWorkers
    /\ \/ RequestsAttemptOf(t, SiteResponses(UrlOf(t)))
       \/ UpdateRequestHistory(t)
    /\ UNCHANGED crawlVars

WorkerRotate(t) ==
    /\ t \in ActiveWorkers
    /\ RotateInUpdate(t)
    /\ UNCHANGED crawlVars

\* open(case_file, "w"): the file is created, or cut to nothing when it
\* is there
FilesAfterOpen(fs, url) ==
    [i \in DOMAIN fs \cup {CaseId(url)} |->
        IF i = CaseId(url) THEN <<>> ELSE fs[i]]

\* f.write(content) and the close at the end of the with block: the text
\* goes to the head of the file as it is then. A file another thread has
\* written since this one opened it keeps what lies beyond the new text,
\* when its text was the longer one
FilesAfterWrite(fs, url) ==
    LET old == fs[CaseId(url)]
        new == ContentOf(url)
    IN  {[fs EXCEPT ![CaseId(url)] = text] :
            text \in IF old \in {<<>>, new} THEN {new}
                     ELSE {new, new \o old}}

\* if not success: results[case_url] = RATE_LIMITED; empty content:
\* results[case_url] = NO_CONTENT; otherwise the file is opened
ProcessCaseClassify(t) ==
    /\ t \in ActiveWorkers
    /\ pc[t] = "returned"
    /\ IF ret[t] = "ok"
       THEN /\ files' = FilesAfterOpen(files, UrlOf(t))
            /\ pc' = [pc EXCEPT ![t] = "w_opened"]
            /\ UNCHANGED result_container
       ELSE /\ result_container' =
                 SetResult(UrlOf(t), IF ret[t] = "fail" THEN "RATE_LIMITED"
                                     ELSE "NO_CONTENT")
            /\ pc' = [pc EXCEPT ![t] = "w_done"]
            /\ UNCHANGED files
    /\ UNCHANGED <<request_history, bmTotals, bmConfig, lock, is_rotating_ip,
                   rotation_count, recent_failures, rotate_calls, retries,
                   flag, kind, ret, exc, rotation_failed, error_message>>
    /\ UNCHANGED <<m_pc, page, clicks, remaining_urls, batch_urls,
                   should_rotate, failed_cases, missing_cases, aborted,
                   failed_log, missing_log, limited, existing_at_dispatch,
                   window_at_dispatch,
                   case_links>>

\* the body and the end of "with open(case_file, "w") as f"
ProcessCaseWrite(t) ==
    /\ t \in ActiveWorkers
    /\ pc[t] = "w_opened"
    /\ files' \in FilesAfterWrite(files, UrlOf(t))
    /\ pc' = [pc EXCEPT ![t] = "w_written"]
    /\ UNCHANGED <<request_history, bmTotals, bmConfig, lock, is_rotating_ip,
                   rotation_count, recent_failures, rotate_calls, retries,
                   flag, kind, ret, exc, rotation_failed, error_message>>
    /\ UNCHANGED <<m_pc, page, clicks, remaining_urls, batch_urls,
                   result_container, should_rotate, failed_cases,
                   missing_cases, aborted, failed_log, missing_log>>
    /\ UNCHANGED <<limited, existing_at_dispatch, window_at_dispatch,
                   case_links>>

\* results[case_url] = SUCCESS, after the file is written
ProcessCaseSuccess(t) ==
    /\ t \in ActiveWorkers
    /\ pc[t] = "w_written"
    /\ result_container' = SetResult(UrlOf(t), "SUCCESS")
    /\ pc' = [pc EXCEPT ![t] = "w_done"]
    /\ UNCHANGED <<request_history, bmTotals, bmConfig, lock, is_rotating_ip,
                   rotation_count, recent_failures, rotate_calls, retries,
                   flag, kind, ret, exc, rotation_failed, error_message>>
    /\ UNCHANGED <<m_pc, page, clicks, remaining_urls, batch_urls,
                   should_rotate, failed_cases, missing_cases, aborted, files,
                   failed_log, missing_log>>
    /\ UNCHANGED <<limited, existing_at_dispatch, window_at_dispatch,
                   case_links>>


(* ------------------------------------------------------------------ *)
(* scrape_law_cases, the main thread (thread 0)                        *)
(* ------------------------------------------------------------------ *)
CrawlInit(present, links) ==
    /\ m_pc = "m_page"
    /\ page = 1
    /\ clicks = 0
    /\ remaining_urls = <<>>
    /\ batch_urls = <<>>
    /\ result_container = <<>>
    /\ should_rotate = FALSE
    /\ failed_cases = <<>>
    /\ missing_cases = <<>>
    /\ aborted = FALSE
    /\ files = present
    /\ failed_log = <<>>
    /\ missing_log = <<>>
    /\ limited = FALSE
    /\ existing_at_dispatch = {}
    /\ window_at_dispatch = 0
    /\ case_links = links

bmShared == <<request_history, bmTotals, bmConfig, lock, is_rotating_ip,
              rotation_count, recent_failures, rotate_calls, rotation_failed>>

\* the end of one pass of "for year in range(begin_year, 2026)"
NextPage ==
    IF page < NumPages
    THEN /\ page' = page + 1
         /\ m_pc' = "m_page"
    ELSE /\ page' = page
         /\ m_pc' = "m_finally"

\* failed_cases = []; show_more, ... = browser.selenium_get(url, showMoreResults)
MainStartPage ==
    /\ m_pc = "m_page"
    /\ failed_cases' = <<>>
    /\ clicks' = 0
    /\ EnterSeleniumGet(0)
    /\ m_pc' = "m_showmore"
    /\ UNCHANGED bmShared
    /\ UNCHANGED <<page, remaining_urls, batch_urls, result_container,
                   should_rotate, missing_cases, aborted, files, failed_log,
                   missing_log>>
    /\ UNCHANGED <<limited, existing_at_dispatch, window_at_dispatch,
                   case_links>>

\* the "load more" rounds after which each listing page shows all its
\* entries and the control is gone
LoadMoreRounds == <<1, 1>>

\* self.driver.get(url) loads the page anew: none of the n rounds triggered
\* on the page before is kept
LoadedAfterGet(n) == 0

\* the element awaited by the main thread's selenium_get is present: the
\* list always, the "load more" control while rounds are left
ElementPresent(where, p, n) ==
    where = "m_list" \/ LoadedAfterGet(n) < LoadMoreRounds[p]

\* the attempts of the main thread's selenium_get: the page and the awaited
\* element load, or the attempt raises
MainSeleniumAttempt ==
    /\ m_pc \in {"m_showmore", "m_list"}
    /\ SeleniumAttemptOf(0, IF limited \/ ~ElementPresent(m_pc, page, clicks)
                            THEN {"error"} ELSE {"ok", "error"})
    /\ UNCHANGED crawlVars

MainSeleniumProbe ==
    /\ m_pc \in {"m_showmore", "m_list"}
    /\ SeleniumProbeOf(0, IF limited THEN {429} ELSE {200})
    /\ UNCHANGED crawlVars

MainSeleniumRotate ==
    /\ m_pc \in {"m_showmore", "m_list"}
    /\ SeleniumRotate(0)
    /\ UNCHANGED crawlVars

MainUpdate ==
    /\ m_pc \in {"m_showmore", "m_list"}
    /\ UpdateRequestHistory(0)
    /\ UNCHANGED crawlVars

MainRotate ==
    /\ m_pc \in {"m_showmore", "m_list"}
    /\ RotateInUpdate(0)
    /\ UNCHANGED crawlVars

\* while show_more: click, selenium_get(url, showMoreResults) again;
\* then selenium_get(url, "#filterableList"); at most MaxShowMore rounds
\* are followed on one page
MainShowMoreReturn ==
    /\ m_pc = "m_showmore"
    /\ pc[0] = "returned"
    /\ IF ret[0] = "ok"
       THEN /\ clicks < MaxShowMore
            /\ clicks' = clicks + 1
            /\ m_pc' = "m_showmore"
       ELSE /\ clicks' = clicks
            /\ m_pc' = "m_list"
    /\ EnterSeleniumGet(0)
    /\ UNCHANGED bmShared
    /\ UNCHANGED <<page, remaining_urls, batch_urls, result_container,
                   should_rotate, failed_cases, missing_cases, aborted, files,
                   failed_log, missing_log>>
    /\ UNCHANGED <<limited, existing_at_dispatch, window_at_dispatch,
                   case_links>>

\* the third element of the tuple is an error message or None, never 429;
\* if not success: continue; else the links of the page are filtered. The
\* locals of the call that has returned are gone
MainListReturn ==
    /\ m_pc = "m_list"
    /\ pc[0] = "returned"
    /\ pc' = [pc EXCEPT ![0] = "idle"]
    /\ retries' = [retries EXCEPT ![0] = 0]
    /\ error_message' = [error_message EXCEPT ![0] = "none"]
    /\ IF ret[0] = "ok"
       THEN /\ remaining_urls' =
                 FilterNonExisting(case_links[page], DOMAIN files)
            /\ m_pc' = "m_batch"
            /\ page' = page
       ELSE /\ remaining_urls' = remaining_urls
            /\ NextPage
    /\ UNCHANGED bmShared
    /\ UNCHANGED <<flag, kind, ret, exc>>
    /\ UNCHANGED <<clicks, batch_urls, result_container, should_rotate,
                   failed_cases, missing_cases, aborted, files, failed_log,
                   missing_log>>
    /\ UNCHANGED <<limited, existing_at_dispatch, window_at_dispatch,
                   case_links>>

\* an exception of selenium_get reaches "except Exception" of the crawl
MainRaised ==
    /\ m_pc \in {"m_showmore", "m_list"}
    /\ pc[0] = "raised"
    /\ pc' = [pc EXCEPT ![0] = "idle"]
    /\ aborted' = TRUE
    /\ m_pc' = "m_finally"
    /\ UNCHANGED bmShared
    /\ UNCHANGED <<retries, flag, kind, ret, exc, error_message>>
    /\ UNCHANGED <<page, clicks, remaining_urls, batch_urls, result_container,
                   should_rotate, failed_cases, missing_cases, files,
                   failed_log, missing_log>>
    /\ UNCHANGED <<limited, existing_at_dispatch, window_at_dispatch,
                   case_links>>


\* the head of "while remaining_urls": the next batch is cut off
MainDispatch ==
    /\ m_pc = "m_batch"
    /\ remaining_urls # <<>>
    /\ batch_urls' = TakeBatch(remaining_urls)
    /\ remaining_urls' = DropBatch(remaining_urls)
    /\ result_container' = <<>>
    /\ m_pc' = "m_start"
    /\ existing_at_dispatch' = {}
    /\ window_at_dispatch' = Len(request_history)
    /\ UNCHANGED bmVars
    /\ UNCHANGED <<page, clicks, should_rotate, failed_cases, missing_cases,
                   aborted, files, failed_log, missing_log, limited,
                   case_links>>

\* the threads of the batch that have been started
Started == {t \in ActiveWorkers : pc[t] # "idle"}

\* one pass of "for i, case_url in enumerate(batch_urls)": the thread of the
\* next item is started and enters process_case and requests_get; after the
\* last one the main thread goes on to the joins
MainStartThread ==
    /\ m_pc = "m_start"
    /\ LET t == Cardinality(Started) + 1
       IN  /\ EnterRequestsGet(t)
           /\ existing_at_dispatch' =
                existing_at_dispatch \cup
                    (IF CaseId(UrlOf(t)) \in DOMAIN files THEN {UrlOf(t)}
                     ELSE {})
           /\ m_pc' = IF t = Len(batch_urls) THEN "m_join" ELSE "m_start"
    /\ UNCHANGED bmShared
    /\ UNCHANGED <<page, clicks, remaining_urls, batch_urls, result_container,
                   should_rotate, failed_cases, missing_cases, aborted, files,
                   failed_log, missing_log, limited, window_at_dispatch,
                   case_links>>

\* the loop over the batches is over: write_failed_cases, next year
MainPageDone ==
    /\ m_pc = "m_batch"
    /\ remaining_urls = <<>>
    /\ failed_log' \in WriteCases(failed_cases, failed_log)
    /\ NextPage
    /\ UNCHANGED bmVars
    /\ UNCHANGED <<clicks, remaining_urls, batch_urls, result_container,
                   should_rotate, failed_cases, missing_cases, aborted, files,
                   missing_log>>
    /\ UNCHANGED <<limited, existing_at_dispatch, window_at_dispatch,
                   case_links>>

\* after the joins: should_rotate = [] and the loop over
\* result_container.items(). The first item is classified into failed_cases
\* or missing_cases and then browser._update_window_and_check_if_rotate is
\* looked up: BrowserManager has no such attribute, the AttributeError ends
\* the loop and reaches "except Exception" of the crawl. With no item the
\* loop body is not entered. The threads of the batch are gone
MainPostBarrier ==
    /\ m_pc = "m_join"
    /\ Joined(ActiveWorkers)
    /\ should_rotate' = FALSE
    /\ IF result_container = <<>>
       THEN /\ m_pc' = "m_posted"
            /\ UNCHANGED <<failed_cases, missing_cases, aborted>>
       ELSE LET case_url == result_container[1][1]
                case_result == result_container[1][2]
            IN  /\ failed_cases' = IF case_result = "RATE_LIMITED"
                                   THEN Append(failed_cases, case_url)
                                   ELSE failed_cases
                /\ missing_cases' = IF case_result = "NO_CONTENT"
                                    THEN Append(missing_cases, case_url)
                                    ELSE missing_cases
                /\ aborted' = TRUE
                /\ m_pc' = "m_finally"
    /\ pc' = [t \in Threads |-> IF t \in Workers THEN "idle" ELSE pc[t]]
    /\ retries' = [t \in Threads |-> IF t \in Workers THEN 0 ELSE retries[t]]
    /\ flag' = [t \in Threads |-> IF t \in Workers THEN TRUE ELSE flag[t]]
    /\ kind' = [t \in Threads |-> IF t \in Workers THEN "none" ELSE kind[t]]
    /\ ret' = [t \in Threads |-> IF t \in Workers THEN "none" ELSE ret[t]]
    /\ exc' = [t \in Threads |-> IF t \in Workers THEN "none" ELSE exc[t]]
    /\ error_message' = [t \in Threads |-> IF t \in Workers THEN "none"
                                            ELSE error_message[t]]
    /\ UNCHANGED <<request_history, bmTotals, bmConfig, lock, is_rotating_ip,
                   rotation_count, recent_failures, rotate_calls,
                   rotation_failed>>
    /\ UNCHANGED <<page, clicks, remaining_urls, batch_urls, result_container,
                   files, failed_log, missing_log>>
    /\ UNCHANGED <<limited, existing_at_dispatch, window_at_dispatch,
                   case_links>>

\* if any(should_rotate): browser.rotate_ip(), an attribute BrowserManager
\* does not have either; with nothing asking for a rotation the loop over
\* the batches goes on
MainAfterBarrier ==
    /\ m_pc = "m_posted"
    /\ IF should_rotate
       THEN /\ aborted' = TRUE
            /\ m_pc' = "m_finally"
       ELSE /\ aborted' = aborted
            /\ m_pc' = "m_batch"
    /\ UNCHANGED bmVars
    /\ UNCHANGED <<page, clicks, remaining_urls, batch_urls, result_container,
                   should_rotate, failed_cases, missing_cases, files,
                   failed_log, missing_log, limited, existing_at_dispatch,
                   window_at_dispatch,
                   case_links>>

\* the site starts to answer 429 to the crawler's address
SiteLimits ==
    /\ ~limited
    /\ m_pc # "m_end"
    /\ limited' = TRUE
    /\ UNCHANGED bmVars
    /\ UNCHANGED <<m_pc, page, clicks, remaining_urls, batch_urls,
                   result_container, should_rotate, failed_cases,
                   missing_cases, aborted, files, failed_log, missing_log,
                   existing_at_dispatch, window_at_dispatch,
                   case_links>>

\* the site stops limiting the address
SiteRelents ==
    /\ limited
    /\ m_pc # "m_end"
    /\ limited' = FALSE
    /\ UNCHANGED bmVars
    /\ UNCHANGED <<m_pc, page, clicks, remaining_urls, batch_urls,
                   result_container, should_rotate, failed_cases,
                   missing_cases, aborted, files, failed_log, missing_log,
                   existing_at_dispatch, window_at_dispatch,
                   case_links>>

\* finally: write_missing_cases(missing_cases, missing_cases_file)
MainFinally ==
    /\ m_pc = "m_finally"
    /\ missing_log' \in WriteCases(missing_cases, missing_log)
    /\ m_pc' = "m_end"
    /\ UNCHANGED bmVars
    /\ UNCHANGED <<page, clicks, remaining_urls, batch_urls, result_container,
                   should_rotate, failed_cases, missing_cases, aborted, files,
                   failed_log>>
    /\ UNCHANGED <<limited, existing_at_dispatch, window_at_dispatch,
                   case_links>>

\* the case files left by earlier runs: none
InitialFiles == {<<>>}

InitCrawl ==
    /\ BrowserManagerInit(CrawlWindowSize, CrawlFailRate, CrawlMaxRetries,
                          TRUE, CrawlRotationLimit)
    /\ \E present \in InitialFiles : CrawlInit(present, Listing)
    /\ RotatorIdle

NextCrawl ==
    /\ UNCHANGED rotVars
    /\ \/ MainStartPage
       \/ MainSeleniumAttempt
       \/ MainSeleniumProbe
       \/ MainSeleniumRotate
       \/ MainUpdate
       \/ MainRotate
       \/ MainShowMoreReturn
       \/ MainListReturn
       \/ MainRaised
       \/ MainDispatch
       \/ MainStartThread
       \/ MainPageDone
       \/ MainPostBarrier
       \/ MainAfterBarrier
       \/ MainFinally
       \/ SiteLimits
       \/ SiteRelents
       \/ \E t \in Workers :
           \/ WorkerRequestsGet(t)
           \/ WorkerRotate(t)
           \/ ProcessCaseClassify(t)
           \/ ProcessCaseWrite(t)
           \/ ProcessCaseSuccess(t)


(* ------------------------------------------------------------------ *)
(* SpecBM: client threads calling the two fetchers of one BrowserManager *)
(* ------------------------------------------------------------------ *)
\* every call in flight records at most one more outcome
RoomForCall ==
    Len(request_history) + Cardinality({u \in Clients : InCall(u)}) < MaxHist

CallRequestsGet(t) ==
    /\ pc[t] = "idle"
    /\ RoomForCall
    /\ EnterRequestsGet(t)
    /\ UNCHANGED bmShared
    /\ UNCHANGED crawlVars

CallSeleniumGet(t) ==
    /\ pc[t] = "idle"
    /\ RoomForCall
    /\ EnterSeleniumGet(t)
    /\ UNCHANGED bmShared
    /\ UNCHANGED crawlVars

\* the caller takes the (success, payload, error) tuple or the exception
ClientReturn(t) ==
    /\ pc[t] \in {"returned", "raised"}
    /\ pc' = [pc EXCEPT ![t] = "idle"]
    /\ retries' = [retries EXCEPT ![t] = 0]
    /\ flag' = [flag EXCEPT ![t] = TRUE]
    /\ kind' = [kind EXCEPT ![t] = "none"]
    /\ ret' = [ret EXCEPT ![t] = "none"]
    /\ exc' = [exc EXCEPT ![t] = "none"]
    /\ error_message' = [error_message EXCEPT ![t] = "none"]
    /\ UNCHANGED bmShared
    /\ UNCHANGED crawlVars

\* a client looks at the success flag of requests_get only
ClientRequestsAttempt(t) ==
    RequestsAttemptOf(t, {"ok", "error", "rate_limit"})

ClientSeleniumAttempt(t) == SeleniumAttemptOf(t, {"ok", "error"})

\* the probe answers 429 only while the cap on rotation calls allows one more
ClientSeleniumProbe(t) ==
    SeleniumProbeOf(t, IF rotate_calls < MaxRotateCalls THEN {200, 429}
                       ELSE {200})

InitBM ==
    \E ws \in WindowSizes, fr \in FailRateArgs, mr \in RetryChoices,
       rot \in BOOLEAN, lim \in RotationLimitArgs :
        /\ BrowserManagerInit(ws, fr, mr, rot, lim)
        /\ CrawlInit({}, Listing)
        /\ RotatorIdle

NextBM ==
    \E t \in Clients :
      /\ UNCHANGED crawlVars
      /\ UNCHANGED rotVars
      /\ \/ CallRequestsGet(t)
        \/ CallSeleniumGet(t)
        \/ ClientRequestsAttempt(t)
        \/ ClientSeleniumAttempt(t)
        \/ ClientSeleniumProbe(t)
        \/ SeleniumRotate(t)
        \/ UpdateRequestHistory(t)
        \/ RotateInUpdate(t)
        \/ ClientReturn(t)

(* ------------------------------------------------------------------ *)
(* IPRotator.rotate_elastic_ip(eni_id), step by step                    *)
(* ------------------------------------------------------------------ *)
AddressIds == 1..MaxAddresses

\* each call of the EC2 client returns or raises ClientError
CloudOutcomes == {"ok", "ClientError"}

\* the allocation id of a new address
NewId(held) == CHOOSE a \in AddressIds \ held :
                   \A b \in AddressIds \ held : a <= b

\* the fields the rotator does not touch
rotatorFixed == <<request_history, bmTotals, bmConfig, lock, is_rotating_ip,
                  recent_failures, pc, retries, flag, kind, ret, exc,
                  rotation_failed, error_message>>

\* rotator.rotate_elastic_ip(PRIMARY_ENI): the limit check
RotatorCall ==
    /\ r_pc = "idle"
    /\ rotate_calls < MaxRotatorCalls
    /\ rotate_calls' = rotate_calls + 1
    /\ r_pc' = IF LimitCheck(rotation_count, rotation_limit)
               THEN "limit" ELSE "describe"
    /\ old_allocation_id' = 0
    /\ old_association_id' = 0
    /\ new_allocation_id' = 0
    /\ UNCHANGED <<rotation_count, allocated, eni_address>>

\* describe_addresses for the interface; old_allocation_id and
\* old_association_id are those of the address it holds
RotatorDescribe ==
    /\ r_pc = "describe"
    /\ \E out \in CloudOutcomes :
         IF out = "ok"
         THEN /\ old_allocation_id' = eni_address
              /\ old_association_id' = eni_address
              /\ r_pc' = "allocate"
         ELSE /\ r_pc' = "raised"
              /\ UNCHANGED <<old_allocation_id, old_association_id>>
    /\ UNCHANGED <<rotate_calls, rotation_count, new_allocation_id, allocated,
                   eni_address>>

\* allocate_address(Domain="vpc"); it raises when the account can hold no
\* more addresses
RotatorAllocate ==
    /\ r_pc = "allocate"
    /\ \E out \in IF AddressIds \subseteq allocated THEN {"ClientError"}
                   ELSE CloudOutcomes :
         IF out = "ok"
         THEN /\ new_allocation_id' = NewId(allocated)
              /\ allocated' = allocated \cup {NewId(allocated)}
              /\ r_pc' = IF old_association_id # 0 THEN "disassociate"
                         ELSE "associate"
         ELSE /\ r_pc' = "raised"
              /\ UNCHANGED <<new_allocation_id, allocated>>
    /\ UNCHANGED <<rotate_calls, rotation_count, old_allocation_id,
                   old_association_id, eni_address>>

\* if old_association_id: disassociate_address(AssociationId=...)
RotatorDisassociate ==
    /\ r_pc = "disassociate"
    /\ \E out \in CloudOutcomes :
         IF out = "ok"
         THEN /\ eni_address' = 0
              /\ r_pc' = "associate"
         ELSE /\ r_pc' = "raised"
              /\ UNCHANGED eni_address
    /\ UNCHANGED <<rotate_calls, rotation_count, old_allocation_id,
                   old_association_id, new_allocation_id, allocated>>

\* associate_address(AllocationId=new_allocation_id, NetworkInterfaceId=eni_id)
RotatorAssociate ==
    /\ r_pc = "associate"
    /\ \E out \in CloudOutcomes :
         IF out = "ok"
         THEN /\ eni_address' = new_allocation_id
              /\ r_pc' = "release"
         ELSE /\ r_pc' = "raised"
              /\ UNCHANGED eni_address
    /\ UNCHANGED <<rotate_calls, rotation_count, old_allocation_id,
                   old_association_id, new_allocation_id, allocated>>

\* if old_allocation_id: release_address(AllocationId=old_allocation_id);
\* self.rotation_count += 1; return
RotatorRelease ==
    /\ r_pc = "release"
    /\ \E out \in IF old_allocation_id # 0 THEN CloudOutcomes ELSE {"ok"} :
         IF out = "ok"
         THEN /\ allocated' = allocated \ {old_allocation_id}
              /\ rotation_count' = rotation_count + 1
              /\ r_pc' = "returned"
         ELSE /\ r_pc' = "raised"
              /\ UNCHANGED <<allocated, rotation_count>>
    /\ UNCHANGED <<rotate_calls, old_allocation_id, old_association_id,
                   new_allocation_id, eni_address>>

\* the caller takes the result or the exception
RotatorCallEnds ==
    /\ r_pc \in {"returned", "raised", "limit"}
    /\ r_pc' = "idle"
    /\ UNCHANGED <<rotate_calls, rotation_count, old_allocation_id,
                   old_association_id, new_allocation_id, allocated,
                   eni_address>>

\* IPRotator(INSTANCE_ID, PRIMARY_ENI, REGION, rotation_limit=...)
RotatorLimits == {0, 1}

\* test_selenium_ip_rotate.py: the BrowserManager has recorded the outcome of
\* one selenium_get and one requests_get when the rotator is called;
\* rotate_ip.py run as a script has recorded none
RotatorWindows == {<<>>} \cup [1..2 -> BOOLEAN]

\* the interface holds an address or none when the rotator is built
InitRotator ==
    /\ request_history \in RotatorWindows
    /\ total_requests = Len(request_history)
    /\ total_successes = Len(request_history) - CountFalse(request_history)
    /\ total_failures = CountFalse(request_history)
    /\ window_size = CrawlWindowSize
    /\ fail_rate_arg = CrawlFailRate
    /\ fail_rate = InitFailRate(CrawlFailRate)
    /\ max_retries = CrawlMaxRetries
    /\ lock = NoThread
    /\ is_rotating_ip = FALSE
    /\ ip_rotator = TRUE
    /\ rotation_count = 0
    /\ \E lim \in RotatorLimits :
         /\ rotation_limit_arg = lim
         /\ rotation_limit = lim
    /\ recent_failures =
         (IF request_history = <<>> THEN 0
          ELSE RecentFailures(request_history,
                              request_history[Len(request_history)],
                              CrawlWindowSize))
    /\ rotate_calls = 0
    /\ pc = [t \in Threads |-> "idle"]
    /\ retries = [t \in Threads |-> 0]
    /\ flag = [t \in Threads |-> TRUE]
    /\ kind = [t \in Threads |-> "none"]
    /\ ret = [t \in Threads |-> "none"]
    /\ exc = [t \in Threads |-> "none"]
    /\ error_message = [t \in Threads |-> "none"]
    /\ rotation_failed = FALSE
    /\ CrawlInit({}, Listing)
    /\ r_pc = "idle"
    /\ old_allocation_id = 0
    /\ old_association_id = 0
    /\ new_allocation_id = 0
    /\ \E a \in {0, 1} :
         /\ eni_address = a
         /\ allocated = {a} \ {0}

NextRotator ==
    /\ \/ RotatorCall
       \/ RotatorDescribe
       \/ RotatorAllocate
       \/ RotatorDisassociate
       \/ RotatorAssociate
       \/ RotatorRelease
       \/ RotatorCallEnds
    /\ UNCHANGED rotatorFixed
    /\ UNCHANGED crawlVars

vars == <<bmVars, crawlVars, rotVars>>

SpecRotator == InitRotator /\ [][NextRotator]_vars

(* ------------------------------------------------------------------ *)
(* SpecLog: write_failed_cases and write_missing_cases over the lists   *)
(* of successive pages and the files of earlier runs                    *)
(* ------------------------------------------------------------------ *)
LogUrls == {<<"en", 1>>, <<"en", 6>>, <<"fr", 1>>}

\* the lists of at most n URLs, duplicates included
CaseLists(n) == UNION {[1..k -> LogUrls] : k \in 0..n}

NoDuplicates(s) == \A i, j \in DOMAIN s : s[i] = s[j] => i = j

\* a file left by earlier runs: lines written by the same two functions
PriorLogs == {f \in CaseLists(MaxPriorLines) : NoDuplicates(f)}

InitLog ==
    /\ BrowserManagerInit(CrawlWindowSize, CrawlFailRate, CrawlMaxRetries,
                          TRUE, CrawlRotationLimit)
    /\ m_pc = "m_batch"
    /\ page = 1
    /\ clicks = 0
    /\ remaining_urls = <<>>
    /\ batch_urls = <<>>
    /\ result_container = <<>>
    /\ should_rotate = FALSE
    /\ aborted = FALSE
    /\ files \in InitialFiles
    /\ limited = FALSE
    /\ existing_at_dispatch = {}
    /\ window_at_dispatch = 0
    /\ case_links = Listing
    /\ failed_cases \in CaseLists(MaxCases)
    /\ missing_cases \in CaseLists(MaxCases)
    /\ failed_log \in PriorLogs
    /\ missing_log \in PriorLogs
    /\ RotatorIdle

logFixed == <<m_pc, page, clicks, remaining_urls, batch_urls, result_container,
              should_rotate, aborted, files, limited, existing_at_dispatch,
              window_at_dispatch, case_links>>

\* write_failed_cases(failed_cases, court_dir / "failed_cases.txt")
LogWriteFailed ==
    /\ failed_log' \in WriteCases(failed_cases, failed_log)
    /\ UNCHANGED <<failed_cases, missing_cases, missing_log>>

\* write_missing_cases(missing_cases, missing_cases_file)
LogWriteMissing ==
    /\ missing_log' \in WriteCases(missing_cases, missing_log)
    /\ UNCHANGED <<failed_cases, missing_cases, failed_log>>

\* failed_cases = [] and the appends of the next page
LogNextFailed ==
    /\ failed_cases' \in CaseLists(MaxCases)
    /\ UNCHANGED <<missing_cases, failed_log, missing_log>>

\* missing_cases as gathered by the next run
LogNextMissing ==
    /\ missing_cases' \in CaseLists(MaxCases)
    /\ UNCHANGED <<failed_cases, failed_log, missing_log>>

NextLog ==
    /\ \/ LogWriteFailed
       \/ LogWriteMissing
       \/ LogNextFailed
       \/ LogNextMissing
    /\ UNCHANGED bmVars
    /\ UNCHANGED logFixed
    /\ UNCHANGED rotVars

SpecLog == InitLog /\ [][NextLog]_vars

SpecBM == InitBM /\ [][NextBM]_vars

SpecCrawl == InitCrawl /\ [][NextCrawl]_vars

\* the crawl of a listing with a page of six links
InitCrawlWide ==
    /\ BrowserManagerInit(CrawlWindowSize, CrawlFailRate, CrawlMaxRetries,
                          TRUE, CrawlRotationLimit)
    /\ \E present \in InitialFiles : CrawlInit(present, WideListing)
    /\ RotatorIdle

\* a site that starts to limit the address while the threads of a batch are
\* being started, goes on limiting it until the crawl is between two listing
\* pages, and whose documents arrive whenever it is not limiting
SteadySite ==
    /\ (~limited /\ limited') => m_pc = "m_start"
    /\ (limited /\ ~limited') => m_pc = "m_page"
    /\ \A t \in Workers : error_message'[t] # "error"

NextCrawlWide == NextCrawl /\ SteadySite

SpecCrawlWide == InitCrawlWide /\ [][NextCrawlWide]_vars

\* the steps of the thread of batch item t, and the steps of the main thread
\* in the loop over the batches
WorkerStep(t) ==
    /\ \/ WorkerRequestsGet(t)
       \/ WorkerRotate(t)
       \/ ProcessCaseClassify(t)
       \/ ProcessCaseWrite(t)
       \/ ProcessCaseSuccess(t)
    /\ UNCHANGED rotVars

MainBatchStep ==
    /\ \/ MainDispatch
       \/ MainStartThread
       \/ MainPostBarrier
       \/ MainAfterBarrier
    /\ UNCHANGED rotVars

\* a site that does as it likes during the first listing page and, on the
\* page of six links, changes its mind between the batches only: it starts
\* to limit the address when no batch is in flight, goes on until the crawl
\* is between two listing pages, and its documents arrive whenever it is
\* not limiting. Each batch of that page is answered as a whole, with the
\* documents or with 429
BatchwiseSite ==
    page = NumPages
        => /\ (~limited /\ limited') => m_pc = "m_batch"
           /\ (limited /\ ~limited') => m_pc = "m_page"
           /\ \A t \in Workers : error_message'[t] # "error"

NextCrawlFair == NextCrawl /\ BatchwiseSite

\* the crawl of the listing with the page of six links, in which every
\* started thread is scheduled again and again, and so is the main thread in
\* the loop over the batches
SpecCrawlFair ==
    /\ InitCrawlWide
    /\ [][NextCrawlFair]_vars
    /\ \A t \in Workers : WF_vars(WorkerStep(t))
    /\ WF_vars(MainBatchStep)

(* ------------------------------------------------------------------ *)
(* Properties of the outcome window and the rotation gate (SpecBM)     *)
(* ------------------------------------------------------------------ *)

\* C1: the outcome window never holds more than windowSize entries: once it
\* is full, each recording evicts the oldest entry
C1_WindowBounded == Len(request_history) <= window_size

\* C2: the failure count evaluated on a recording is the number of False
\* entries among the last min(n, windowSize) recorded outcomes
C2_FailureCountOfWindow ==
    recent_failures = CountFalse(LastN(request_history, window_size))

\* the threads inside a call of the address rotator
Rotating ==
    {t \in Threads : pc[t] \in {"rot_call", "sel_rotate"} /\ ip_rotator}

\* C3: at most one invocation of the rotation operation is in progress at
\* any time
C3_OneRotationInProgress == Cardinality(Rotating) <= 1

\* C8: the threshold the failure count is compared with is the configured
\* fail_rate: with fail_rate = 1 and a rotator, the first recorded failure
\* brings a rotation
C8_ConfiguredThreshold ==
    (fail_rate_arg = 1 /\ ip_rotator /\ CountFalse(request_history) >= 1)
        => (rotate_calls >= 1 \/ \E t \in Threads : pc[t] = "rot_call")

(* ------------------------------------------------------------------ *)
(* Properties of the crawl: SpecCrawl, SpecCrawlWide for the batches   *)
(* of a page of six links, SpecCrawlFair for the progress of the loop  *)
(* ------------------------------------------------------------------ *)

\* C5: when the processing of a batch has called for a rotation, the next
\* batch dispatched is that batch again, the same URLs in the same order. A
\* rotation call made so far came from a thread of the batch before: one made
\* by the main thread ends the crawl
C5_RequeueWholeBatch ==
    [][(m_pc = "m_batch" /\ m_pc' = "m_start" /\ batch_urls # <<>>
          /\ rotate_calls > 0)
         => batch_urls' = batch_urls]_vars

\* C6: an item whose destination file exists when its thread is started is
\* classified ALREADY_EXISTS and no fetch is attempted for it
C6_ExistingNotFetched ==
    \A t \in Started :
        UrlOf(t) \in existing_at_dispatch
            => /\ \/ pc[t] = "req_loop" /\ retries[t] = 0
                  \/ pc[t] = "w_done"
               /\ ResultOf(UrlOf(t)) \in {"none", "ALREADY_EXISTS"}

\* the outcomes recorded since the batch on hand was dispatched
AddedByBatch ==
    SubSeq(request_history, window_at_dispatch + 1, Len(request_history))

\* C7: each item of a batch adds exactly one entry to the window per pass:
\* when the threads of the batch have been joined, the window has grown by
\* one entry per item, a failure for each item whose fetch failed and a
\* success for each of the others (four successes and one failure for a
\* batch of five with one rate-limited item)
C7_OneEntryPerItem ==
    (m_pc = "m_join" /\ Joined(ActiveWorkers))
        => /\ Len(AddedByBatch) = Len(batch_urls)
           /\ CountFalse(AddedByBatch)
                  = Cardinality({t \in ActiveWorkers : ret[t] = "fail"})

\* a batch of five has been joined with one rate-limited item and four that
\* were fetched, the failure recorded between the successes
C7_Witness ==
    /\ m_pc = "m_join"
    /\ Joined(ActiveWorkers)
    /\ Len(batch_urls) = batch_size
    /\ AddedByBatch = <<TRUE, TRUE, FALSE, TRUE, TRUE>>
    /\ \E t \in ActiveWorkers : error_message[t] = "rate_limit"

\* C9: once a rotation call has raised, in a thread of a batch or in the
\* main thread, no thread is started, no batch is dispatched and no listing
\* page is fetched any more
C9_AbortOnRotationFailure ==
    [][rotation_failed
         => /\ Started' \subseteq Started
            /\ ~(m_pc = "m_batch" /\ m_pc' = "m_start")
            /\ ~(m_pc = "m_page" /\ m_pc' # "m_page")]_vars

\* C10: when the crawl has aborted, the classifications of the batches whose
\* threads had all finished are persisted: every NO_CONTENT URL is in the
\* missing log and every RATE_LIMITED URL in the failed log
C10_LogsWrittenOnAbort ==
    (m_pc = "m_end" /\ aborted)
        => \A u \in Urls :
             /\ ResultOf(u) = "NO_CONTENT" => u \in SeqToSet(missing_log)
             /\ ResultOf(u) = "RATE_LIMITED" => u \in SeqToSet(failed_log)

\* C11: the rotations never exceed the rotation_limit of the rotation
\* configuration, and a rotation asked for after that many rotations is not
\* performed and ends in the limit error
C11_RotationLimitEnforced ==
    /\ rotation_count <= rotation_limit_arg
    /\ RotateOutcomes(RotateParams, rotation_limit_arg, rotation_limit)
           = {"LimitReached"}

\* C12: when the threads of a batch have been joined, the result dict holds
\* a classification for every URL of the batch
C12_EveryItemClassified ==
    (m_pc = "m_join" /\ \A t \in ActiveWorkers : Finished(t))
        => \A t \in ActiveWorkers : ResultOf(UrlOf(t)) # "none"

\* the call of thread t has left _update_request_history by an exception
LeftGateByException(t) == pc[t] = "raised" /\ ret[t] # "none"

\* C13: a call that reaches the rotation decision with a rotator configured
\* gives its caller a terminal outcome, and surfaces an error only when the
\* external rotation has failed: a rotation the backend can perform is
\* observed as Rotated
C13_RotatedNotAnError ==
    \A t \in Threads :
        (ip_rotator /\ LeftGateByException(t))
            => exc[t] \in {"ClientError", "LimitReached"}

\* C14: while a thread of the batch is still in its fetch, the window is as
\* it was when the batch was dispatched and no rotation is in progress
C14_WindowAfterBarrier ==
    (m_pc \in {"m_start", "m_join"}
       /\ \E u \in ActiveWorkers : pc[u] = "req_loop")
        => /\ Len(request_history) = window_at_dispatch
           /\ \A t \in ActiveWorkers : pc[t] # "rot_call"

\* C15: after an attempt that was classified as rate limited the fetcher
\* makes no further attempt for the request
C15_RateLimitEndsRetries ==
    \A t \in Threads :
        error_message[t] = "rate_limit" => pc[t] # "req_loop"

\* C16: a fetch call that has ended made at most max_retries attempts and
\* recorded one window entry, False only after max_retries failed attempts
C16_OneEntryPerFetch ==
    \A t \in Threads :
        pc[t] \in {"returned", "raised"}
            => /\ retries[t] <= max_retries
               /\ ret[t] # "none"
               /\ (ret[t] = "fail" => retries[t] = max_retries)

\* C17: once a failed rotation call has left _update_request_history, the
\* is-rotating flag is False
C17_IdleAfterFailedRotation ==
    (\A t \in Threads : pc[t] # "rot_call") => ~is_rotating_ip

\* C18: while a thread is inside the rotator, no outcome is appended to the
\* window
C18_NoAppendWhileRotating ==
    [][Rotating # {} => request_history' = request_history]_vars

\* C19: a batch whose processing has called for a rotation is fetched again,
\* and none of its URLs stays in failed_cases or missing_cases from that
\* pass: when the main thread leaves the joins of a batch one of whose
\* threads has been through the rotation call, the two lists hold no URL of
\* the batch
C19_RequeueClearsLists ==
    [][(m_pc = "m_join" /\ m_pc' # "m_join"
          /\ \E t \in ActiveWorkers : pc[t] = "raised")
         => /\ SeqToSet(failed_cases') \cap SeqToSet(batch_urls) = {}
            /\ SeqToSet(missing_cases') \cap SeqToSet(batch_urls) = {}]_vars

\* C20: an item whose classification is SUCCESS has its file in storage,
\* and the file holds the text extracted from the item's document
C20_SuccessHasFile ==
    \A u \in Urls :
        ResultOf(u) = "SUCCESS"
            => /\ CaseId(u) \in DOMAIN files
               /\ files[CaseId(u)] = ContentOf(u)

\* C22: a load of the listing itself that has used up its retries does not
\* end the crawl: selenium_get returns its failure and the page is skipped
C22_FailedListingSkipped ==
    (m_pc = "m_list" /\ ret[0] = "fail") => pc[0] # "raised"

\* C23: once the rounds that a finite listing needs have been triggered, the
\* control is exhausted: the next fetch for it does not find it, and the
\* loop ends
C23_LoadMoreExhausts ==
    (m_pc = "m_showmore" /\ clicks >= LoadMoreRounds[page])
        => ~(pc[0] = "returned" /\ ret[0] = "ok")

\* the threads of a batch that have been started and have not finished
InFlight == {t \in Workers : pc[t] \notin {"idle", "w_done", "raised"}}

\* C24: at most batch_size threads are in flight; the main thread leaves the
\* joins only when every thread of the batch has finished; a batch is cut
\* off when no thread is in flight, and is the first batch_size URLs of the
\* pending list in order, or all of them when fewer are left; the threads
\* started are those of the batch, one after the other
C24_BoundedBatchesWithBarrier ==
    /\ [](/\ Cardinality(InFlight) <= batch_size
          /\ InFlight \subseteq ActiveWorkers
          /\ m_pc \notin {"m_start", "m_join"} => InFlight = {})
    /\ [][/\ (m_pc = "m_join" /\ m_pc' # "m_join")
               => \A t \in ActiveWorkers : Finished(t)
          /\ (m_pc = "m_batch" /\ m_pc' = "m_start")
               => /\ \A t \in Workers : pc[t] = "idle"
                  /\ remaining_urls = batch_urls' \o remaining_urls'
                  /\ batch_urls' # <<>>
                  /\ Len(batch_urls') <= batch_size
                  /\ Len(batch_urls') < batch_size => remaining_urls' = <<>>
          /\ (m_pc = "m_start" /\ m_pc' = "m_join")
               => Started' = 1..Len(batch_urls)]_vars

\* the sixth link of the second page is in flight as a batch of its own,
\* after the five threads of the batch before it died in the rotation call
\* and were joined
C24_Witness ==
    /\ m_pc = "m_join"
    /\ page = 2
    /\ batch_urls = <<case_links[2][batch_size + 1]>>
    /\ remaining_urls = <<>>
    /\ rotate_calls >= batch_size
    /\ pc[1] = "req_loop"

\* C27: the lock is held only by a thread inside the rotation call of
\* _update_request_history and is free again when that call has ended,
\* by return or by exception; every batch whose threads have been started
\* gets past its joins
C27_LockReleasedJoinReturns ==
    /\ [](lock # NoThread => pc[lock] = "rot_call")
    /\ (m_pc = "m_join") ~> (m_pc \in {"m_posted", "m_finally"})

\* a thread of the batch has left the gate by the exception of the rotation
\* call while the other thread of the batch has still to record its outcome
C27_Witness ==
    /\ m_pc = "m_join"
    /\ lock = NoThread
    /\ \E t \in ActiveWorkers : pc[t] = "raised" /\ exc[t] = "TypeError"
    /\ \E t \in ActiveWorkers : pc[t] = "upd" /\ ~flag[t]

\* the loop over the batches is over, or the crawl has aborted
LoopLeft ==
    \/ m_pc \in {"m_finally", "m_end"}
    \/ m_pc = "m_batch" /\ remaining_urls = <<>>

\* C28: the dispatch loop terminates, and what bounds the passes is the
\* rotation limit: a rotation called for by a thread of a batch is answered
\* by a rotator that carries the rotation_limit of the rotation
\* configuration and the rotations stay within it, the pending list grows
\* inside the loop only after a rotation, and a loop that has dispatched a
\* batch ends with the list empty or the crawl aborted
C28_RequeuesBounded ==
    /\ [](/\ \A t \in ActiveWorkers :
                pc[t] = "rot_call" => rotation_limit = rotation_limit_arg
          /\ rotation_count <= rotation_limit_arg)
    /\ [][(/\ m_pc \in {"m_batch", "m_start", "m_join", "m_posted"}
           /\ Len(remaining_urls') > Len(remaining_urls))
              => rotation_count > 0]_vars
    /\ (m_pc = "m_start") ~> LoopLeft

\* C29: without a rotation configuration a fetch never reaches the call of
\* the rotator, and leaves by an exception only for the threshold breach
C29_NoRotatorNoRotation ==
    \A t \in Threads :
        ~ip_rotator
            => /\ pc[t] \notin {"sel_rotate", "rot_call"}
               /\ pc[t] = "raised" => exc[t] = "TooManyFailures"

(* ------------------------------------------------------------------ *)
(* Properties of the address rotator (SpecRotator)                     *)
(* ------------------------------------------------------------------ *)
\* C4: immediately after a successful rotation the outcome window is empty,
\* so that later failure counts see only outcomes recorded after it
C4_WindowEmptyAfterRotation ==
    [][rotation_count' = rotation_count + 1 => request_history' = <<>>]_vars

\* C25: when rotate_elastic_ip has raised, the interface holds the address
\* it held before the call, and the account holds no address that is not
\* associated with the interface
C25_RotationAtomic ==
    r_pc = "raised"
        => /\ allocated \subseteq {eni_address}
           /\ old_allocation_id # 0 => eni_address = old_allocation_id

\* C26: rotation_count never decreases, grows by one in the step that ends a
\* call with a result and in no other step, and stays within a positive
\* rotation_limit
C26_RotationCountMonotone ==
    /\ [](rotation_limit > 0 => rotation_count <= rotation_limit)
    /\ [][/\ rotation_count' >= rotation_count
          /\ r_pc' = "returned" => rotation_count' = rotation_count + 1
          /\ r_pc' # "returned" => rotation_count' = rotation_count]_vars

\* under a limit of one rotation, a call has raised and left an address
\* behind, a later call has rotated, and the next one is refused
C26_Witness ==
    /\ rotation_limit = 1
    /\ rotation_count = 1
    /\ r_pc = "limit"
    /\ Cardinality(allocated) >= 2

(* ------------------------------------------------------------------ *)
(* Properties of the persisted logs (SpecLog)                          *)
(* ------------------------------------------------------------------ *)
\* old is kept line for line at the head of new, and no line after it
\* repeats a line of new
AppendedOnlyNew(old, new) ==
    /\ Len(old) <= Len(new)
    /\ SubSeq(new, 1, Len(old)) = old
    /\ \A i \in (Len(old) + 1)..Len(new) :
         \A j \in 1..Len(new) : new[j] = new[i] => j = i

\* C21: a write of either log keeps every existing line as it is, adds no
\* URL that is already a line of the file, and a second write of the same
\* list leaves the file as it is after the first
C21_LogsAppendOnlyDeduplicated ==
    [][/\ AppendedOnlyNew(failed_log, failed_log')
       /\ AppendedOnlyNew(missing_log, missing_log')
       /\ failed_log' # failed_log
            => /\ SeqToSet(failed_cases) \subseteq SeqToSet(failed_log')
               /\ WriteCases(failed_cases', failed_log') = {failed_log'}
       /\ missing_log' # missing_log
            => /\ SeqToSet(missing_cases) \subseteq SeqToSet(missing_log')
               /\ WriteCases(missing_cases', missing_log') = {missing_log'}]_vars

\* the failed log has grown by two writes at least, and the list on hand
\* repeats a URL and names the first line of the file
C21_Witness ==
    /\ Len(failed_log) >= MaxPriorLines + 2
    /\ Len(failed_cases) >= 2
    /\ failed_cases[1] = failed_cases[2]
    /\ failed_cases[1] = failed_log[1]
    /\ Len(missing_log) >= MaxPriorLines + 1

====
